---- MODULE Spec2Model ----
(***************************************************************************)
(* Model of the two client-side state machines of xstate-viz:              *)
(*   - the source machine (src/src/sourceMachine.ts, makeSourceMachine),   *)
(*   - the drag machine   (src/unnamed/part_001, dragMachine and its host  *)
(*     component CanvasContainer).                                         *)
(* One action is one xstate macrostep: the transition taken for an event   *)
(* together with every eventless ("always") transition and every exit,     *)
(* transition and entry action that follows it.                            *)
(***************************************************************************)
EXTENDS Integers, Sequences, FiniteSets, TLC

(* ------------------------------ values -------------------------------- *)

\* JavaScript null / undefined for string-valued fields.
Null == "null"

\* Largest timestamp (updatedAt / cache date) of the model; 0 stands for "absent".
MaxTime == 2
Times == 1..MaxTime

Users == {"u1", "u2"}
\* Payloads of LOGGED_IN_USER_ID_UPDATED (null when logged out).
UserIds == {"u1", Null}

\* The id carried by the URL or the server-rendered data, the gist id, and the
\* ids the registry hands out for newly created records.
RegistryId == "abc123"
GistId == "g1"
NewIds == {"new1"}

\* Payloads of CODE_UPDATED, and the text the server / gist host returns.
EditTexts == {"", "a"}
ServerText == "s"
exampleMachineCode == "exampleMachineCode"

\* Names are sequences of tokens; the string is their concatenation.  No token
\* other than "(forked)" ends with the characters "(forked)".
NullName == <<Null>>
ForkSuffix == <<" ", "(forked)">>
EventNames == { <<>>, <<"Foo">> }

\* sourceRegistryData: null, or the SourceFileFragment fields the machine reads.
NullData == [id |-> Null, ownerId |-> Null, updatedAt |-> 0]
SourceFile(id, owner, t) == [id |-> id, ownerId |-> owner, updatedAt |-> t]

\* params.data: absent, or the server-rendered record.
NoSsrData == [present |-> FALSE, id |-> Null, text |-> Null]
SsrData == [present |-> TRUE, id |-> RegistryId, text |-> ServerText]

\* JavaScript truthiness of a string-or-null value.
Truthy(s) == s # Null /\ s # ""

NameTruthy(n) == n # NullName /\ n # <<>>

\* String.prototype.endsWith('(forked)') on a token sequence.
EndsWithForked(n) == Len(n) > 0 /\ n[Len(n)] = "(forked)"

(* --------------------------- local cache ------------------------------ *)

NoSourceKey == "no_source"
CacheKeys == {NoSourceKey, RegistryId, GistId} \cup NewIds
NoEntry == [text |-> Null, date |-> 0]

CacheKey(sourceID) == IF sourceID = Null THEN NoSourceKey ELSE sourceID

\* localCache.getSourceRawContent(sourceID, updatedAt): the cached text, or
\* null when there is no entry or the server is known to hold a newer version.
getSourceRawContent(c, sourceID, updatedAt) ==
  LET e == c[CacheKey(sourceID)] IN
  IF e = NoEntry THEN Null
  ELSE IF updatedAt = 0 \/ ~(updatedAt > e.date) THEN e.text
  ELSE Null

\* localCache.removeSourceRawContent(sourceID)
removeSourceRawContent(c, sourceID) == [c EXCEPT ![CacheKey(sourceID)] = NoEntry]

\* localCache.saveSourceRawContent
saveSourceRawContent(c, sourceID, text, date) ==
  [c EXCEPT ![CacheKey(sourceID)] = [text |-> text, date |-> date]]

(* ----------------------------- state ---------------------------------- *)

VARIABLES
  state,         \* active leaf state of the source machine
  context,       \* its context (sourceModel)
  data,          \* params.data
  isEmbedded,    \* params.isEmbedded
  clientSide,    \* isOnClientSide() / typeof window !== 'undefined'
  session,       \* Boolean(params.auth.session())
  url,           \* query parameters id / gist and the path set by routerReplace
  cache,         \* browser local storage, by cache key
  pendingWrite,  \* edit held by the debouncing cache writer
  request,       \* payload of the outstanding create / fork / update call
  loadResponse,  \* what the gist host / registry answered to the content load
  loadInFlight,  \* the content load has been started and has not answered yet
  effects,       \* side effects performed by the last macrostep, in order
  lastEdit,      \* last CODE_UPDATED handled since source_loaded was entered
  dropped,       \* the event of the last step, when no active state handled it
  dragState,     \* active leaf state of the drag machine
  dragCtx,       \* its context (dragModel)
  userSelect,    \* canvasRef.current.style.userSelect
  panSent,       \* PAN commands sent to the canvas service by the last step
  dragEvent,     \* the last event the drag machine received, and the last GRAB point
  domEvent,      \* the last key, pointer or wheel event the component handled
  reported       \* sum of the deltas sent by dragging since the last GRAB

sourceVars == <<state, context, data, isEmbedded, clientSide, session, url, cache,
                pendingWrite, request, loadResponse, loadInFlight, effects, lastEdit,
                dropped>>
dragVars == <<dragState, dragCtx, userSelect, panSent, dragEvent, domEvent, reported>>
vars == <<sourceVars, dragVars>>

Effect(kind, arg) == [kind |-> kind, arg |-> arg]
SendParent == Effect("sendParent", "LOGGED_OUT_USER_ATTEMPTED_RESTRICTED_ACTION")
Broadcast(severity) == Effect("BROADCAST", severity)
Redirect == Effect("redirectToNewUrlFromLegacyUrl", Null)
RouterReplace(id) == Effect("routerReplace", id)
StripQueryParams == Effect("updateQueryParamsWithoutReload", Null)
ForwardTo(child) == Effect("forwardTo", child)
OpenNewWindow == Effect("openNewWindowAtRoot", "/viz")

NoRequest == [op |-> "none", id |-> Null, text |-> Null, name |-> NullName]
NoWrite == [code |-> Null, sourceID |-> Null, pending |-> FALSE]
NoEdit == [code |-> "none", at |-> "none"]

SourceLoaded == {"user_owns_this_source", "user_does_not_own_this_source"}
WithSource == SourceLoaded \cup {"loading_content", "source_error"}
NoSource == {"has_cached_source", "no_cached_source"}
Creating == {"showingNameModal", "pendingSave"}

\* State tags.
Tags(s) ==
  IF s = "no_cached_source" THEN {"canShowWelcomeMessage", "noCachedSource"}
  ELSE IF s \in {"pendingSave", "updating"} THEN {"persisting"}
  ELSE {}

(* ------------------------ context operations -------------------------- *)

\* The machine's initial context, built from params.data.
InitialContext(d) ==
  [ sourceID |-> IF d.present /\ Truthy(d.id) THEN d.id ELSE Null,
    sourceProvider |-> IF d.present THEN "registry" ELSE Null,
    sourceRawContent |-> IF d.present /\ Truthy(d.text) THEN d.text ELSE Null,
    sourceRegistryData |-> NullData,
    loggedInUserId |-> Null,
    desiredMachineName |-> NullName ]

\* Mutant: the gist branch reads the id parameter.
parseQueries_WrongParam(ctx, u, onClient) ==
  IF ~onClient THEN ctx
  ELSE IF Truthy(u.gist) THEN [ctx EXCEPT !.sourceID = u.id, !.sourceProvider = "gist"]
  ELSE IF Truthy(u.id) THEN [ctx EXCEPT !.sourceID = u.id, !.sourceProvider = "registry"]
  ELSE ctx

parseQueries(ctx, u, onClient) ==
  IF ~onClient THEN ctx
  ELSE IF Truthy(u.gist) THEN [ctx EXCEPT !.sourceID = u.gist, !.sourceProvider = "gist"]
  ELSE IF Truthy(u.id) THEN [ctx EXCEPT !.sourceID = u.id, !.sourceProvider = "registry"]
  ELSE ctx

\* Mutant: the cache is read without the server's updatedAt.
getLocalStorageCachedSource_IgnoresUpdatedAt(ctx, c) ==
  LET result == getSourceRawContent(c, ctx.sourceID, 0) IN
  IF ~Truthy(result) THEN ctx ELSE [ctx EXCEPT !.sourceRawContent = result]

getLocalStorageCachedSource(ctx, c) ==
  LET result == getSourceRawContent(c, ctx.sourceID, ctx.sourceRegistryData.updatedAt) IN
  IF ~Truthy(result) THEN ctx ELSE [ctx EXCEPT !.sourceRawContent = result]

hasLocalStorageCachedSource(ctx, c) ==
  Truthy(getSourceRawContent(c, ctx.sourceID, ctx.sourceRegistryData.updatedAt))

\* Mutant: the suffix is appended without looking at the end of the name.
addForkOfToDesiredName_NoSuffixCheck(ctx) ==
  IF ~NameTruthy(ctx.desiredMachineName) THEN ctx
  ELSE [ctx EXCEPT !.desiredMachineName = ctx.desiredMachineName \o ForkSuffix]

addForkOfToDesiredName(ctx) ==
  IF ~NameTruthy(ctx.desiredMachineName) \/ EndsWithForked(ctx.desiredMachineName)
  THEN ctx
  ELSE [ctx EXCEPT !.desiredMachineName = ctx.desiredMachineName \o ForkSuffix]

\* Mutant: the example also becomes the desired machine name's source.
assignExampleMachineToContext_AlsoNames(ctx) ==
  [ctx EXCEPT !.sourceRawContent = exampleMachineCode, !.desiredMachineName = <<"fetch">>]

assignExampleMachineToContext(ctx) == [ctx EXCEPT !.sourceRawContent = exampleMachineCode]

\* Mutant: the provider is not set when the created record is adopted.
assignCreateSourceFileToContext_KeepsProvider(ctx, rec) ==
  [ctx EXCEPT !.sourceID = rec.id, !.sourceRegistryData = rec]

assignCreateSourceFileToContext(ctx, rec) ==
  [ctx EXCEPT !.sourceID = rec.id, !.sourceProvider = "registry", !.sourceRegistryData = rec]

assignUpdateSourceFileToContext(ctx, rec) ==
  [ctx EXCEPT !.sourceID = rec.id, !.sourceProvider = "registry", !.sourceRegistryData = rec]

assignLoadedFromRegistry(ctx, rec, text) ==
  [ctx EXCEPT !.sourceID = rec.id, !.sourceRawContent = text, !.sourceRegistryData = rec]

assignLoadedFromGist(ctx, rawSource) == [ctx EXCEPT !.sourceRawContent = rawSource]

\* cond of checking_if_user_owns_source
userOwnsSource(ctx) ==
  LET ownerId == ctx.sourceRegistryData.ownerId IN
  IF ~Truthy(ownerId) \/ ~Truthy(ctx.loggedInUserId) THEN FALSE
  ELSE ownerId = ctx.loggedInUserId

checking_if_user_owns_source(ctx) ==
  IF userOwnsSource(ctx) THEN "user_owns_this_source" ELSE "user_does_not_own_this_source"

checking_if_in_local_storage(ctx, c) ==
  IF hasLocalStorageCachedSource(ctx, c) THEN "has_cached_source" ELSE "no_cached_source"

\* Context after entering no_source and settling in one of its sub-states.
EnterNoSource(ctx, c) ==
  IF checking_if_in_local_storage(ctx, c) = "has_cached_source"
  THEN getLocalStorageCachedSource(ctx, c) ELSE ctx

\* Mutant: the test on params.data is inverted.
isOnLegacyUrl_Inverted(u, d, onClient) ==
  IF ~onClient THEN FALSE ELSE Truthy(u.id) /\ d.present

\* cond of checking_if_id_on_query_params
isOnLegacyUrl(u, d, onClient) ==
  IF ~onClient THEN FALSE ELSE Truthy(u.id) /\ ~d.present

(* ------------------------------ services ------------------------------ *)

\* Answers of the remote gateways to the content load, by provider.
GistResponses == {"status404", "ok", "malformed", "transport_error"}
RegistryResponses == {"record", "no_record", "transport_error"}

\* Mutant: a missing registry record is raised as a plain Error.
loadSourceContent_PlainError(ctx, resp, rec) ==
  IF ctx.sourceProvider = "gist" THEN
    IF resp = "status404" THEN [type |-> "error", error |-> "NotFoundError"]
    ELSE IF resp = "ok" THEN [type |-> "LOADED_FROM_GIST", error |-> Null]
    ELSE [type |-> "error", error |-> "Error"]
  ELSE IF ctx.sourceProvider = "registry" THEN
    IF resp = "record" THEN [type |-> "LOADED_FROM_REGISTRY", error |-> Null]
    ELSE [type |-> "error", error |-> "Error"]
  ELSE [type |-> "error", error |-> "Error"]

\* loadSourceContent: the event the service produces for a gateway answer.
loadSourceContent(ctx, resp, rec) ==
  IF ctx.sourceProvider = "gist" THEN
    IF resp = "status404" THEN [type |-> "error", error |-> "NotFoundError"]
    ELSE IF resp = "ok" THEN [type |-> "LOADED_FROM_GIST", error |-> Null]
    ELSE [type |-> "error", error |-> "Error"]
  ELSE IF ctx.sourceProvider = "registry" THEN
    IF resp = "transport_error" THEN [type |-> "error", error |-> "Error"]
    ELSE IF resp = "no_record" THEN [type |-> "error", error |-> "NotFoundError"]
    ELSE [type |-> "LOADED_FROM_REGISTRY", error |-> Null]
  ELSE [type |-> "error", error |-> "Error"]

\* createSourceFile: the call made on entering pendingSave.
createSourceFile(ctx) ==
  LET text == IF Truthy(ctx.sourceRawContent) THEN ctx.sourceRawContent ELSE ""
      name == IF NameTruthy(ctx.desiredMachineName) THEN ctx.desiredMachineName ELSE <<>>
  IN IF Truthy(ctx.sourceID) /\ ctx.sourceProvider = "registry"
     THEN [op |-> "forkSourceFile", id |-> ctx.sourceID, text |-> text, name |-> name]
     ELSE [op |-> "createSourceFile", id |-> Null, text |-> text, name |-> name]

\* Mutant: the update call sends the text the server already holds.
updateSourceFile_StaleText(ctx) ==
  [op |-> "updateSourceFile", id |-> ctx.sourceID, text |-> ServerText, name |-> NullName]

\* updateSourceFile: the call made on entering updating.
updateSourceFile(ctx) ==
  [op |-> "updateSourceFile", id |-> ctx.sourceID, text |-> ctx.sourceRawContent,
   name |-> NullName]

(* ----------------------- transitions (pure part) ---------------------- *)

Result(s, ctx, fx) == [state |-> s, context |-> ctx, effects |-> fx]

\* Entering source_loaded through its initial state: the entry action, then
\* the ownership check.
EnterSourceLoaded(ctx, c, fx) ==
  LET c1 == getLocalStorageCachedSource(ctx, c) IN
  Result(checking_if_user_owns_source(c1), c1, fx)

\* Entering source_loaded with an explicit sub-state as target.
EnterSourceLoadedAt(sub, ctx, c, fx) ==
  Result(sub, getLocalStorageCachedSource(ctx, c), fx)

EnterNoSourceResult(ctx, c, fx) ==
  Result(checking_if_in_local_storage(ctx, c), EnterNoSource(ctx, c), fx)

\* Mutant: the redirect runs and the machine goes on resolving the source.
InitialTransition_RedirectsAndProceeds(ctx, u, d, onClient, c) ==
  LET fx == IF isOnLegacyUrl(u, d, onClient) THEN <<Redirect>> ELSE <<>> IN
  IF Truthy(ctx.sourceID) THEN Result("loading_content", ctx, fx)
  ELSE LET c1 == parseQueries(ctx, u, onClient) IN
       IF Truthy(c1.sourceID) THEN Result("loading_content", c1, fx)
       ELSE EnterNoSourceResult(c1, c, fx)

\* The initial macrostep: checking_if_on_legacy_url, checking_initial_data,
\* checking_url and the state they settle in.
InitialTransition(ctx, u, d, onClient, c) ==
  IF isOnLegacyUrl(u, d, onClient) THEN Result("redirecting", ctx, <<Redirect>>)
  ELSE IF Truthy(ctx.sourceID) THEN Result("loading_content", ctx, <<>>)
  ELSE LET c1 == parseQueries(ctx, u, onClient) IN
       IF Truthy(c1.sourceID) THEN Result("loading_content", c1, <<>>)
       ELSE EnterNoSourceResult(c1, c, <<>>)

\* Mutant: the owner's SAVE is not guarded by the session.
SaveAsOwner_Unguarded(ctx, loggedIn) == Result("updating", ctx, <<>>)

\* SAVE in user_owns_this_source
SaveAsOwner(ctx, loggedIn) ==
  IF loggedIn THEN Result("updating", ctx, <<>>)
  ELSE Result("user_owns_this_source", ctx, <<SendParent>>)

\* SAVE in user_does_not_own_this_source
SaveAsNotOwner(ctx, loggedIn) ==
  IF loggedIn THEN Result("showingNameModal", addForkOfToDesiredName(ctx), <<>>)
  ELSE Result("user_does_not_own_this_source", ctx, <<SendParent>>)

\* Mutant: the logged-out branch also shows an error toast.
SaveNoSource_Toast(s, ctx, loggedIn) ==
  IF loggedIn THEN Result("showingNameModal", ctx, <<>>)
  ELSE Result(s, ctx, <<SendParent, Broadcast("error")>>)

\* SAVE in no_source
SaveNoSource(s, ctx, loggedIn) ==
  IF loggedIn THEN Result("showingNameModal", ctx, <<>>)
  ELSE Result(s, ctx, <<SendParent>>)

\* FORK in with_source
Fork(s, ctx, loggedIn) ==
  IF loggedIn THEN Result("showingNameModal", addForkOfToDesiredName(ctx), <<>>)
  ELSE Result(s, ctx, <<SendParent>>)

\* Mutant: the edit is forwarded whatever the display mode.
CodeUpdated_AlwaysForwards(s, ctx, code, embedded) ==
  Result(s, [ctx EXCEPT !.sourceRawContent = code],
         <<ForwardTo("codeCacheMachine"), ForwardTo("confirmBeforeLeavingMachine")>>)

\* CODE_UPDATED in source_loaded and in no_source
CodeUpdated(s, ctx, code, embedded) ==
  Result(s, [ctx EXCEPT !.sourceRawContent = code],
         IF ~embedded
         THEN <<ForwardTo("codeCacheMachine"), ForwardTo("confirmBeforeLeavingMachine")>>
         ELSE <<>>)

\* Mutant: inside source_loaded the transition is external, so source_loaded
\* is re-entered and its entry action runs again.
LoggedInUserIdUpdated_Reenters(s, ctx, id) ==
  LET c1 == [ctx EXCEPT !.loggedInUserId = id] IN
  IF s \in SourceLoaded THEN EnterSourceLoaded(c1, cache, <<>>)
  ELSE Result(s, c1, <<>>)

\* Mutant: the identity is assigned and ownership is not checked again.
LoggedInUserIdUpdated_NoRecheck(s, ctx, id) ==
  Result(s, [ctx EXCEPT !.loggedInUserId = id], <<>>)

\* LOGGED_IN_USER_ID_UPDATED: the root handler, overridden inside source_loaded
\* by an internal transition to the ownership check.
LoggedInUserIdUpdated(s, ctx, id) ==
  LET c1 == [ctx EXCEPT !.loggedInUserId = id] IN
  IF s \in SourceLoaded THEN Result(checking_if_user_owns_source(c1), c1, <<>>)
  ELSE Result(s, c1, <<>>)

\* CLOSE_NAME_CHOOSER_MODAL in creating.showingNameModal
CloseNameChooserModal(ctx, c) ==
  IF Truthy(ctx.sourceID) THEN EnterSourceLoaded(ctx, c, <<>>)
  ELSE EnterNoSourceResult(ctx, c, <<>>)

\* Mutant: the query parameters are stripped whatever the error is.
SourceErrorEntry_AlwaysStrips(error) == <<Broadcast("error"), StripQueryParams>>

\* Entry actions of source_error for the error carried by the event.
SourceErrorEntry(error) ==
  IF error = "NotFoundError" THEN <<Broadcast("error"), StripQueryParams>>
  ELSE <<Broadcast("error")>>

\* The lambda handed to updateQueryParamsWithoutReload.
DeleteIdAndGist(u) == [u EXCEPT !.id = Null, !.gist = Null]

\* loading_content: LOADED_FROM_REGISTRY, LOADED_FROM_GIST and the invoke's onError.
LoadingContent(ctx, c, ev, rec, text) ==
  IF ev.type = "LOADED_FROM_REGISTRY"
  THEN EnterSourceLoaded(assignLoadedFromRegistry(ctx, rec, text), c, <<>>)
  ELSE IF ev.type = "LOADED_FROM_GIST"
  THEN EnterSourceLoadedAt("user_does_not_own_this_source",
                           assignLoadedFromGist(ctx, text), c, <<>>)
  ELSE Result("source_error", ctx, SourceErrorEntry(ev.error))

\* Mutant: a late LOADED_FROM_GIST is handled as if in loading_content.
LateLoadResult_Handled(s, ctx) ==
  EnterSourceLoadedAt("user_does_not_own_this_source",
                      assignLoadedFromGist(ctx, ServerText), cache, <<>>)

\* An answer of the content load that arrives outside loading_content: no
\* active state handles LOADED_FROM_REGISTRY or LOADED_FROM_GIST, and the
\* rejection of a stopped service is dropped.
LateLoadResult(s, ctx) == Result(s, ctx, <<>>)

\* Mutant: the cache entry is cleared after the new record is adopted.
CreateDone_ClearsAfterAssign(ctx, c, rec) ==
  LET c1 == assignCreateSourceFileToContext(ctx, rec) IN
  EnterSourceLoadedAt("user_owns_this_source", c1, removeSourceRawContent(c, c1.sourceID),
                      <<Effect("removeSourceRawContent", CacheKey(c1.sourceID)),
                        RouterReplace(c1.sourceID), Broadcast("success")>>)

\* The events and the states that handle them, for the events that only some
\* states handle.
Handlers(type) ==
  IF type = "CODE_UPDATED" THEN SourceLoaded \cup NoSource
  ELSE IF type = "EXAMPLE_REQUESTED" THEN {"no_cached_source"}
  ELSE {}

\* Mutant: an unhandled event still assigns the example source.
DropEvent_AppliesExample(s, ctx, code) ==
  Result(s, assignExampleMachineToContext(ctx), <<>>)

\* Mutant: an unhandled event still assigns its code.
DropEvent_AppliesEdit(s, ctx, code) ==
  Result(s, [ctx EXCEPT !.sourceRawContent = code], <<>>)

\* An event no active state handles: no transition, no action.
DropEvent(s, ctx, code) == Result(s, ctx, <<>>)

\* pendingSave: onDone
CreateDone(ctx, c, rec) ==
  LET c1 == assignCreateSourceFileToContext(ctx, rec) IN
  EnterSourceLoadedAt("user_owns_this_source", c1, removeSourceRawContent(c, ctx.sourceID),
                      <<Effect("removeSourceRawContent", CacheKey(ctx.sourceID)),
                        RouterReplace(c1.sourceID), Broadcast("success")>>)

\* Mutant: a failed create always goes to no_source.
CreateError_AlwaysNoSource(ctx, c) == EnterNoSourceResult(ctx, c, <<Broadcast("error")>>)

\* pendingSave: onError
CreateError(ctx, c) ==
  IF Truthy(ctx.sourceID) THEN EnterSourceLoaded(ctx, c, <<Broadcast("error")>>)
  ELSE EnterNoSourceResult(ctx, c, <<Broadcast("error")>>)

\* updating: onDone
UpdateDone(ctx, c, rec) ==
  EnterSourceLoadedAt("user_owns_this_source", assignUpdateSourceFileToContext(ctx, rec), c,
                      <<Broadcast("success")>>)

\* updating: onError
UpdateError(ctx, c) == EnterSourceLoaded(ctx, c, <<Broadcast("error")>>)

(* ------------------------------ actions ------------------------------- *)

\* Applies the result of a macrostep of the source machine.  The children
\* invoked by source_loaded and no_source (the cache writer among them) are
\* stopped when that state is left, which drops the edit the writer holds.
Apply(r) ==
  /\ state' = r.state
  /\ context' = r.context
  /\ effects' = r.effects
  /\ lastEdit' = IF state \in SourceLoaded /\ r.state \in SourceLoaded THEN lastEdit ELSE NoEdit
  /\ dropped' = "none"

DragUnchanged == UNCHANGED dragVars

Start ==
  /\ state = "not_started"
  /\ Apply(InitialTransition(context, url, data, clientSide, cache))
  /\ loadInFlight' = (state' = "loading_content")
  /\ UNCHANGED <<data, isEmbedded, clientSide, session, url, cache, pendingWrite,
                 request, loadResponse>>
  /\ DragUnchanged

LOGGED_IN_USER_ID_UPDATED ==
  /\ state # "not_started"
  /\ \E id \in UserIds :
       Apply(LoggedInUserIdUpdated(state, context, id))
  /\ UNCHANGED <<data, isEmbedded, clientSide, session, url, cache, pendingWrite,
                 request, loadResponse, loadInFlight>>
  /\ DragUnchanged

MACHINE_ID_CHANGED ==
  /\ state # "not_started"
  /\ \E id \in EventNames :
       Apply(Result(state, [context EXCEPT !.desiredMachineName = id], <<>>))
  /\ UNCHANGED <<data, isEmbedded, clientSide, session, url, cache, pendingWrite,
                 request, loadResponse, loadInFlight>>
  /\ DragUnchanged

CODE_UPDATED ==
  /\ state \in SourceLoaded \cup NoSource
  /\ \E code \in EditTexts :
       /\ state' = CodeUpdated(state, context, code, isEmbedded).state
       /\ context' = CodeUpdated(state, context, code, isEmbedded).context
       /\ effects' = CodeUpdated(state, context, code, isEmbedded).effects
       /\ lastEdit' = IF state \in SourceLoaded THEN [code |-> code, at |-> state] ELSE NoEdit
       /\ dropped' = "none"
       /\ pendingWrite' = IF ~isEmbedded
                          THEN [code |-> code, sourceID |-> context.sourceID, pending |-> TRUE]
                          ELSE pendingWrite
  /\ UNCHANGED <<data, isEmbedded, clientSide, session, url, cache, request, loadResponse, loadInFlight>>
  /\ DragUnchanged

SAVE ==
  /\ state \in SourceLoaded \cup NoSource
  /\ LET r == IF state = "user_owns_this_source" THEN SaveAsOwner(context, session)
              ELSE IF state = "user_does_not_own_this_source"
              THEN SaveAsNotOwner(context, session)
              ELSE SaveNoSource(state, context, session)
     IN /\ Apply(r)
        /\ request' = IF r.state = "updating" THEN updateSourceFile(r.context) ELSE request
        /\ pendingWrite' = IF r.state = state THEN pendingWrite ELSE NoWrite
  /\ UNCHANGED <<data, isEmbedded, clientSide, session, url, cache, loadResponse, loadInFlight>>
  /\ DragUnchanged

FORK ==
  /\ state \in WithSource
  /\ LET r == Fork(state, context, session)
     IN /\ Apply(r)
        /\ pendingWrite' = IF r.state = state THEN pendingWrite ELSE NoWrite
  /\ UNCHANGED <<data, isEmbedded, clientSide, session, url, cache, request, loadResponse, loadInFlight>>
  /\ DragUnchanged

CREATE_NEW ==
  /\ state \in WithSource
  /\ Apply(Result(state, context, <<OpenNewWindow>>))
  /\ UNCHANGED <<data, isEmbedded, clientSide, session, url, cache, pendingWrite,
                 request, loadResponse, loadInFlight>>
  /\ DragUnchanged

EXAMPLE_REQUESTED ==
  /\ state = "no_cached_source"
  /\ Apply(Result(state, assignExampleMachineToContext(context), <<>>))
  /\ UNCHANGED <<data, isEmbedded, clientSide, session, url, cache, pendingWrite,
                 request, loadResponse, loadInFlight>>
  /\ DragUnchanged

CHOOSE_NAME ==
  /\ state = "showingNameModal"
  /\ \E name \in EventNames :
       LET c1 == [context EXCEPT !.desiredMachineName = name] IN
       /\ Apply(Result("pendingSave", c1, <<>>))
       /\ request' = createSourceFile(c1)
  /\ UNCHANGED <<data, isEmbedded, clientSide, session, url, cache, pendingWrite,
                 loadResponse, loadInFlight>>
  /\ DragUnchanged

CLOSE_NAME_CHOOSER_MODAL ==
  /\ state = "showingNameModal"
  /\ Apply(CloseNameChooserModal(context, cache))
  /\ UNCHANGED <<data, isEmbedded, clientSide, session, url, cache, pendingWrite,
                 request, loadResponse, loadInFlight>>
  /\ DragUnchanged

\* The content load settles: the gateway answers and the machine handles the
\* event the service makes of the answer.
LoadSettled ==
  /\ state = "loading_content"
  /\ \E resp \in (IF context.sourceProvider = "gist" THEN GistResponses
                  ELSE RegistryResponses),
        owner \in Users, t \in Times :
       LET ev == loadSourceContent(context, resp, SourceFile(context.sourceID, owner, t))
           r == LoadingContent(context, cache, ev,
                               SourceFile(context.sourceID, owner, t), ServerText)
       IN /\ Apply(r)
          /\ loadResponse' = resp
          /\ url' = IF StripQueryParams \in {r.effects[i] : i \in DOMAIN r.effects}
                    THEN DeleteIdAndGist(url) ELSE url
  /\ loadInFlight' = FALSE
  /\ UNCHANGED <<data, isEmbedded, clientSide, session, cache, pendingWrite, request>>
  /\ DragUnchanged

\* The content load answers after loading_content has been left.
LoadSettledLate ==
  /\ state # "loading_content"
  /\ loadInFlight
  /\ Apply(LateLoadResult(state, context))
  /\ loadInFlight' = FALSE
  /\ UNCHANGED <<data, isEmbedded, clientSide, session, url, cache, pendingWrite,
                 request, loadResponse>>
  /\ DragUnchanged

\* The create / fork call resolves with the new record, which belongs to the
\* user who made the call.
CreateSettledDone ==
  /\ state = "pendingSave"
  /\ \E id \in NewIds, owner \in UserIds \ {Null}, t \in Times :
       /\ id # context.sourceID
       /\ cache[id] = NoEntry
       /\ Apply(CreateDone(context, cache, SourceFile(id, owner, t)))
       /\ cache' = removeSourceRawContent(cache, context.sourceID)
       /\ url' = [url EXCEPT !.path = id]
  /\ request' = NoRequest
  /\ UNCHANGED <<data, isEmbedded, clientSide, session, pendingWrite, loadResponse, loadInFlight>>
  /\ DragUnchanged

\* The create / fork call rejects.
CreateSettledError ==
  /\ state = "pendingSave"
  /\ Apply(CreateError(context, cache))
  /\ request' = NoRequest
  /\ UNCHANGED <<data, isEmbedded, clientSide, session, url, cache, pendingWrite,
                 loadResponse, loadInFlight>>
  /\ DragUnchanged

\* The update call resolves with the updated record.
UpdateSettledDone ==
  /\ state = "updating"
  /\ \E t \in Times :
       /\ t >= context.sourceRegistryData.updatedAt
       /\ Apply(UpdateDone(context, cache,
                           SourceFile(request.id, context.sourceRegistryData.ownerId, t)))
  /\ request' = NoRequest
  /\ UNCHANGED <<data, isEmbedded, clientSide, session, url, cache, pendingWrite,
                 loadResponse, loadInFlight>>
  /\ DragUnchanged

\* The update call rejects.
UpdateSettledError ==
  /\ state = "updating"
  /\ Apply(UpdateError(context, cache))
  /\ request' = NoRequest
  /\ UNCHANGED <<data, isEmbedded, clientSide, session, url, cache, pendingWrite,
                 loadResponse, loadInFlight>>
  /\ DragUnchanged

\* CODE_UPDATED or EXAMPLE_REQUESTED received in a state that does not handle
\* it.  The editor sends CODE_UPDATED at any time; EXAMPLE_REQUESTED is sent
\* from the screens of no_source.
Unhandled ==
  /\ state # "not_started"
  /\ \E type \in {"CODE_UPDATED", "EXAMPLE_REQUESTED"}, code \in EditTexts :
       /\ state \notin Handlers(type)
       /\ type = "EXAMPLE_REQUESTED" => state \in NoSource
       /\ state' = DropEvent(state, context, code).state
       /\ context' = DropEvent(state, context, code).context
       /\ effects' = DropEvent(state, context, code).effects
       /\ dropped' = type
  /\ UNCHANGED <<data, isEmbedded, clientSide, session, url, cache, pendingWrite,
                 request, loadResponse, loadInFlight, lastEdit>>
  /\ DragUnchanged

\* The auth provider's session starts or ends.
SessionChanged ==
  /\ session' = ~session
  /\ UNCHANGED <<state, context, data, isEmbedded, clientSide, url, cache, pendingWrite,
                 request, loadResponse, loadInFlight, effects, lastEdit, dropped>>
  /\ DragUnchanged

\* The cache writer's debounce delay elapses and it stores the edit it holds.
CacheWriterFlush ==
  /\ pendingWrite.pending
  /\ cache' = saveSourceRawContent(cache, pendingWrite.sourceID, pendingWrite.code,
                                    context.sourceRegistryData.updatedAt)
  /\ pendingWrite' = NoWrite
  /\ UNCHANGED <<state, context, data, isEmbedded, clientSide, session, url, request,
                 loadResponse, loadInFlight, effects, lastEdit, dropped>>
  /\ DragUnchanged

\* The cache entries a page load can find: none, or one entry left by an
\* earlier session under the key this load reads.
EmptyCache == [k \in CacheKeys |-> NoEntry]
OneEntry(key, text, date) ==
  [k \in CacheKeys |-> IF k = key THEN [text |-> text, date |-> date] ELSE NoEntry]

NoQuery == [id |-> Null, gist |-> Null, path |-> Null]
Urls == [id : {Null, RegistryId}, gist : {Null, GistId}, path : {Null}]

\* The environments the machine is constructed in.  On the server there is
\* no window: no query string to read and no local storage.
Environments ==
  { e \in [data : {NoSsrData, SsrData}, url : Urls, clientSide : BOOLEAN,
           cache : {EmptyCache} \cup {OneEntry(NoSourceKey, "a", 0), OneEntry(GistId, "a", 0)}
                   \cup {OneEntry(RegistryId, "a", t) : t \in Times}] :
      /\ ~e.clientSide => (e.url = NoQuery /\ e.cache = EmptyCache)
      /\ e.cache # EmptyCache =>
           e.cache[CacheKey(InitialTransition(InitialContext(e.data), e.url, e.data,
                                              e.clientSide, EmptyCache).context.sourceID)]
             # NoEntry }

(* ---------------------------- drag machine --------------------------- *)

\* Largest page coordinates (pageX, pageY) of a pointer event.
MaxCoord == 2
MaxCoordY == 1
Coords == 0..MaxCoord
Points == [x : Coords, y : 0..MaxCoordY]
Origin == [x |-> 0, y |-> 0]

\* useEmbed(): undefined, or the embed settings the component reads.  The pan
\* and zoom settings are read only when isEmbedded is true.
NoEmbed == [present |-> FALSE, isEmbedded |-> FALSE, pan |-> FALSE, zoom |-> FALSE]
Embeds ==
  {NoEmbed, [present |-> TRUE, isEmbedded |-> FALSE, pan |-> FALSE, zoom |-> FALSE]}
    \cup [present : {TRUE}, isEmbedded : {TRUE}, pan : BOOLEAN, zoom : BOOLEAN]

\* dragModel.initialContext with the embed settings of the host.
DragInitialContext(embed) ==
  [startPoint |-> Origin, dragPoint |-> Origin, dx |-> 0, dy |-> 0, embed |-> embed]

Locked == {"idle", "grabbed", "dragging"}

\* state.nextEvents: the events the active states of the drag machine handle.
NextEvents(s) ==
  IF s = "released" THEN {"LOCK"}
  ELSE IF s = "idle" THEN {"RELEASE", "GRAB"}
  ELSE IF s \in {"grabbed", "dragging"} THEN {"RELEASE", "DRAG", "UNGRAB"}
  ELSE {}

\* cond of checking_embedded_mode
InEmbeddedModeWithoutPan(ctx) ==
  ctx.embed.present /\ ctx.embed.isEmbedded /\ ~ctx.embed.pan

checking_embedded_mode(ctx) ==
  IF InEmbeddedModeWithoutPan(ctx) THEN "in_embedded_mode" ELSE "released"

\* actions of GRAB in locked.idle
AssignGrab(ctx, point) == [ctx EXCEPT !.startPoint = point, !.dragPoint = point]

\* Mutant: the delta is taken as new point minus previous point.
AssignDrag_Reversed(ctx, point) ==
  [ctx EXCEPT !.dragPoint = point,
              !.dx = point.x - ctx.dragPoint.x,
              !.dy = point.y - ctx.dragPoint.y]

\* Mutant: the delta is measured from the start point of the gesture.
AssignDrag_FromStart(ctx, point) ==
  [ctx EXCEPT !.dragPoint = point,
              !.dx = ctx.startPoint.x - point.x,
              !.dy = ctx.startPoint.y - point.y]

\* entry of locked.dragging: every property assigner reads the context as it
\* was before the assign.
AssignDrag(ctx, point) ==
  [ctx EXCEPT !.dragPoint = point,
              !.dx = ctx.dragPoint.x - point.x,
              !.dy = ctx.dragPoint.y - point.y]

Pan(dx, dy) == [type |-> "PAN", dx |-> dx, dy |-> dy]
Zoom(direction) == [type |-> direction, dx |-> 0, dy |-> 0]

\* Mutant: a PAN is sent for every state inside locked.
PanEffect_WheneverLocked(s, ctx) == IF s \in Locked THEN <<Pan(ctx.dx, ctx.dy)>> ELSE <<>>

\* The effect that watches the machine's state: a PAN for every new state
\* that carries the dragging tag.
PanEffect(s, ctx) == IF s = "dragging" THEN <<Pan(ctx.dx, ctx.dy)>> ELSE <<>>

\* Key events: the key pressed and whether the target is a text input.
KeyCodes == {"Space", "KeyA"}

\* keydownListener of invokeDetectLock: the event it sends back.
keydownListener(code, textInput) ==
  IF textInput THEN "none"
  ELSE IF code = "Space" THEN "LOCK" ELSE "none"

\* keyupListener of invokeDetectRelease: the event it sends back.
keyupListener(code, textInput) == IF code = "Space" THEN "RELEASE" ELSE "none"

\* The window listeners installed by the services of the active states.
Listeners(s) ==
  IF s = "released" THEN {"keydown"}
  ELSE IF s \in Locked THEN {"keyup"}
  ELSE {}

\* Wheel movements (deltaX, deltaY).
WheelDeltas == { [x |-> 1, y |-> -1], [x |-> 0, y |-> 1] }

\* Mutant: the embed restrictions are not looked at.
onCanvasWheel_Unrestricted(embed, withMetaKey, otherModifier, delta) ==
  IF withMetaKey
  THEN IF delta.y > 0 THEN <<Zoom("ZOOM.OUT")>>
       ELSE IF delta.y < 0 THEN <<Zoom("ZOOM.IN")>>
       ELSE <<>>
  ELSE IF ~otherModifier THEN <<Pan(delta.x, delta.y)>>
  ELSE <<>>

\* onCanvasWheel: the commands it sends to the canvas service.  withMetaKey
\* is isWithPlatformMetaKey(e), otherModifier is e.metaKey || e.ctrlKey.
onCanvasWheel(embed, withMetaKey, otherModifier, delta) ==
  LET isEmbeddedWithoutZoom ==
        withMetaKey /\ embed.present /\ embed.isEmbedded /\ ~embed.zoom
      isEmbeddedWithoutPan ==
        ~withMetaKey /\ embed.present /\ embed.isEmbedded /\ ~embed.pan
  IN IF isEmbeddedWithoutPan \/ isEmbeddedWithoutZoom THEN <<>>
     ELSE IF withMetaKey
     THEN IF delta.y > 0 THEN <<Zoom("ZOOM.OUT")>>
          ELSE IF delta.y < 0 THEN <<Zoom("ZOOM.IN")>>
          ELSE <<>>
     ELSE IF ~otherModifier THEN <<Pan(delta.x, delta.y)>>
     ELSE <<>>

DragEvent(type, point, from, grab) ==
  [type |-> type, point |-> point, from |-> from, grab |-> grab]

DomEvent(kind, code, textInput) == [kind |-> kind, code |-> code, textInput |-> textInput]

\* A step of the component in which the drag machine receives no event.
NoMachineEvent ==
  /\ dragEvent' = DragEvent("none", Origin, dragState, dragEvent.grab)
  /\ UNCHANGED <<dragState, dragCtx, userSelect, reported>>

SourceUnchanged == UNCHANGED sourceVars

\* useMachine(dragMachine.withContext({...initialContext, embed}))
DragStart ==
  /\ dragState = "not_started"
  /\ dragState' = checking_embedded_mode(dragCtx)
  /\ panSent' = <<>>
  /\ dragEvent' = DragEvent("xstate.init", Origin, dragState, dragEvent.grab)
  /\ UNCHANGED <<dragCtx, userSelect, domEvent, reported>>
  /\ SourceUnchanged

\* keydown while invokeDetectLock listens, sending LOCK: released goes to
\* locked (entry disableTextSelection) and locked.idle.
LOCK ==
  /\ "keydown" \in Listeners(dragState)
  /\ \E code \in KeyCodes, textInput \in BOOLEAN :
       /\ keydownListener(code, textInput) = "LOCK"
       /\ domEvent' = DomEvent("keydown", code, textInput)
  /\ dragState' = "idle"
  /\ userSelect' = "none"
  /\ panSent' = PanEffect(dragState', dragCtx)
  /\ dragEvent' = DragEvent("LOCK", Origin, dragState, dragEvent.grab)
  /\ UNCHANGED <<dragCtx, reported>>
  /\ SourceUnchanged

\* keyup while invokeDetectRelease listens, sending RELEASE: leaves locked
\* (exit enableTextSelection).
RELEASE ==
  /\ "keyup" \in Listeners(dragState)
  /\ \E code \in KeyCodes, textInput \in BOOLEAN :
       /\ keyupListener(code, textInput) = "RELEASE"
       /\ domEvent' = DomEvent("keyup", code, textInput)
  /\ dragState' = "released"
  /\ userSelect' = "unset"
  /\ panSent' = PanEffect(dragState', dragCtx)
  /\ dragEvent' = DragEvent("RELEASE", Origin, dragState, dragEvent.grab)
  /\ UNCHANGED <<dragCtx, reported>>
  /\ SourceUnchanged

\* A key event that sends nothing to the machine: no listener is installed
\* for it, or the listener returns without sending.
KeyIgnored ==
  /\ dragState # "not_started"
  /\ \E kind \in {"keydown", "keyup"}, code \in KeyCodes, textInput \in BOOLEAN :
       /\ \/ kind \notin Listeners(dragState)
          \/ kind = "keydown" /\ keydownListener(code, textInput) = "none"
          \/ kind = "keyup" /\ keyupListener(code, textInput) = "none"
       /\ domEvent' = DomEvent(kind, code, textInput)
  /\ panSent' = <<>>
  /\ NoMachineEvent
  /\ SourceUnchanged

\* onPointerDown: GRAB when the state handles it.
GRAB ==
  /\ "GRAB" \in NextEvents(dragState)
  /\ \E point \in Points :
       /\ dragCtx' = AssignGrab(dragCtx, point)
       /\ dragEvent' = DragEvent("GRAB", point, dragState, point)
  /\ dragState' = "grabbed"
  /\ panSent' = PanEffect(dragState', dragCtx')
  /\ domEvent' = DomEvent("pointer", "none", FALSE)
  /\ reported' = Origin
  /\ UNCHANGED userSelect
  /\ SourceUnchanged

\* onPointerMove: DRAG when the state handles it; from grabbed and from
\* dragging alike the machine (re-)enters dragging.
DRAG ==
  /\ "DRAG" \in NextEvents(dragState)
  /\ \E point \in Points :
       /\ dragCtx' = AssignDrag(dragCtx, point)
       /\ dragEvent' = DragEvent("DRAG", point, dragState, dragEvent.grab)
  /\ dragState' = "dragging"
  /\ panSent' = PanEffect(dragState', dragCtx')
  /\ domEvent' = DomEvent("pointer", "none", FALSE)
  /\ reported' = [x |-> reported.x + dragCtx'.dx, y |-> reported.y + dragCtx'.dy]
  /\ UNCHANGED userSelect
  /\ SourceUnchanged

\* onPointerUp: UNGRAB when the state handles it.
UNGRAB ==
  /\ "UNGRAB" \in NextEvents(dragState)
  /\ dragState' = "idle"
  /\ panSent' = PanEffect(dragState', dragCtx)
  /\ dragEvent' = DragEvent("UNGRAB", Origin, dragState, dragEvent.grab)
  /\ domEvent' = DomEvent("pointer", "none", FALSE)
  /\ UNCHANGED <<dragCtx, userSelect, reported>>
  /\ SourceUnchanged

\* A pointer event whose machine event the state does not handle: the
\* handler sends nothing.
PointerIgnored ==
  /\ dragState # "not_started"
  /\ \E h \in { <<"pointerdown", "GRAB">>, <<"pointermove", "DRAG">>,
               <<"pointerup", "UNGRAB">> } :
       /\ h[2] \notin NextEvents(dragState)
       /\ domEvent' = DomEvent("pointer", "none", FALSE)
  /\ panSent' = <<>>
  /\ NoMachineEvent
  /\ SourceUnchanged

\* A wheel event on the canvas.
Wheel ==
  /\ dragState # "not_started"
  /\ \E withMetaKey \in BOOLEAN, otherModifier \in BOOLEAN, delta \in WheelDeltas :
       /\ withMetaKey => otherModifier
       /\ panSent' = onCanvasWheel(dragCtx.embed, withMetaKey, otherModifier, delta)
       /\ domEvent' = DomEvent(IF ~otherModifier THEN "wheel" ELSE "wheel+modifier",
                               "none", FALSE)
  /\ NoMachineEvent
  /\ SourceUnchanged

DragIdle ==
  /\ dragState = "not_started"
  /\ dragCtx = DragInitialContext(NoEmbed)
  /\ userSelect = "initial"
  /\ panSent = <<>>
  /\ dragEvent = DragEvent("none", Origin, "not_started", Origin)
  /\ domEvent = DomEvent("none", "none", FALSE)
  /\ reported = Origin

SourceIdle ==
  /\ state = "not_started"
  /\ data = NoSsrData
  /\ context = InitialContext(NoSsrData)
  /\ isEmbedded = FALSE
  /\ clientSide = TRUE
  /\ session = FALSE
  /\ url = NoQuery
  /\ cache = EmptyCache
  /\ pendingWrite = NoWrite
  /\ request = NoRequest
  /\ loadResponse = "none"
  /\ loadInFlight = FALSE
  /\ effects = <<>>
  /\ lastEdit = NoEdit
  /\ dropped = "none"

DragInit ==
  /\ dragState = "not_started"
  /\ \E embed \in Embeds : dragCtx = DragInitialContext(embed)
  /\ userSelect = "initial"
  /\ panSent = <<>>
  /\ dragEvent = DragEvent("none", Origin, "not_started", Origin)
  /\ domEvent = DomEvent("none", "none", FALSE)
  /\ reported = Origin
  /\ SourceIdle

DragNext ==
  \/ DragStart
  \/ LOCK
  \/ RELEASE
  \/ GRAB
  \/ DRAG
  \/ UNGRAB
  \/ KeyIgnored
  \/ PointerIgnored
  \/ Wheel

DragSpec == DragInit /\ [][DragNext]_vars

Init ==
  /\ state = "not_started"
  /\ \E e \in Environments :
       /\ data = e.data
       /\ url = e.url
       /\ clientSide = e.clientSide
       /\ cache = e.cache
  /\ context = InitialContext(data)
  /\ isEmbedded \in BOOLEAN
  /\ session = FALSE
  /\ pendingWrite = NoWrite
  /\ request = NoRequest
  /\ loadResponse = "none"
  /\ loadInFlight = FALSE
  /\ effects = <<>>
  /\ lastEdit = NoEdit
  /\ dropped = "none"
  /\ DragIdle

Next ==
  \/ Start
  \/ LOGGED_IN_USER_ID_UPDATED
  \/ MACHINE_ID_CHANGED
  \/ CODE_UPDATED
  \/ SAVE
  \/ FORK
  \/ CREATE_NEW
  \/ EXAMPLE_REQUESTED
  \/ CHOOSE_NAME
  \/ CLOSE_NAME_CHOOSER_MODAL
  \/ LoadSettled
  \/ LoadSettledLate
  \/ CreateSettledDone
  \/ CreateSettledError
  \/ UpdateSettledDone
  \/ UpdateSettledError
  \/ Unhandled
  \/ SessionChanged
  \/ CacheWriterFlush

Spec == Init /\ [][Next]_vars

(* ------------------------------- claims ------------------------------- *)

Name == context.desiredMachineName

\* C1: a SAVE received while the auth session is unauthenticated, in
\* source_loaded/owner, source_loaded/not_owner or no_source, leaves the state
\* and the whole context (sourceID, sourceProvider, rawContent among it)
\* unchanged and performs exactly one side effect, the login-required signal
\* to the parent: no notification is broadcast.
C1_UnauthenticatedSave ==
  [][ (SAVE /\ ~session) =>
        /\ state' = state
        /\ context' = context
        /\ url' = url
        /\ effects' = <<SendParent>> ]_vars

C1_Witness ==
  /\ state \in NoSource
  /\ ~session
  /\ effects = <<SendParent>>
  /\ context.sourceRawContent = "a"

\* A fork action: an authenticated SAVE in not_owner, or an authenticated FORK.
ForkAction ==
  \/ SAVE /\ session /\ state = "user_does_not_own_this_source"
  \/ FORK /\ session

\* C2 as stated: a fork action on any name N that does not end in "(forked)"
\* (the empty name included) sets the name to N + " (forked)".
C2_Original ==
  [][ (ForkAction /\ Name # NullName /\ ~EndsWithForked(Name)) =>
        Name' = Name \o ForkSuffix ]_vars

\* C2 amended: a fork action appends " (forked)" to a non-empty name that does
\* not end in "(forked)" and leaves every other name (null, empty, or already
\* ending in "(forked)") as it is, so no fork action doubles the suffix.
C2_ForkName ==
  [][ ForkAction =>
        /\ state' = "showingNameModal"
        /\ Name' = IF NameTruthy(Name) /\ ~EndsWithForked(Name)
                   THEN Name \o ForkSuffix ELSE Name
        /\ (EndsWithForked(Name) => Name' = Name) ]_vars

C2_Witness ==
  /\ state = "showingNameModal"
  /\ Name = <<"Foo", " ", "(forked)">>
  /\ context.sourceProvider = "gist"

\* C3: after any sequence of CODE_UPDATED and LOGGED_IN_USER_ID_UPDATED events
\* handled inside source_loaded, rawContent is the payload of the last
\* CODE_UPDATED, whatever ownership re-checks happened since.
C3_LastEditWins ==
  (state \in SourceLoaded /\ lastEdit # NoEdit) => context.sourceRawContent = lastEdit.code

\* The last edit was handled in not_owner and the machine is now in owner: an
\* ownership re-check ran after it.  A valid cache entry holds another text.
C3_Witness ==
  /\ state = "user_owns_this_source"
  /\ lastEdit.at = "user_does_not_own_this_source"
  /\ lastEdit.code = ""
  /\ context.sourceRawContent = ""
  /\ getSourceRawContent(cache, context.sourceID, context.sourceRegistryData.updatedAt) = "a"

EntersSourceLoaded == state \notin SourceLoaded /\ state' \in SourceLoaded
EntryFound == cache'[CacheKey(context'.sourceID)]
ServerUpdatedAt == context'.sourceRegistryData.updatedAt
TextBeforeEntry == IF state = "loading_content" THEN ServerText ELSE context.sourceRawContent

\* C5 as stated: on every entry into source_loaded a cache entry older than
\* the server's updatedAt is not overlaid, and an entry newer than it, or any
\* entry when there is no server metadata, replaces rawContent.
C5_Original ==
  [][ (EntersSourceLoaded /\ EntryFound # NoEntry) =>
        /\ (ServerUpdatedAt > EntryFound.date) => context'.sourceRawContent = TextBeforeEntry
        /\ (ServerUpdatedAt = 0 \/ EntryFound.date > ServerUpdatedAt)
             => context'.sourceRawContent = EntryFound.text ]_vars

\* C5 amended: the same, for a cache entry whose text is not empty; an entry
\* with an empty text is never overlaid.
C5_CacheOverlay ==
  [][ (EntersSourceLoaded /\ EntryFound # NoEntry) =>
        /\ (ServerUpdatedAt > EntryFound.date) => context'.sourceRawContent = TextBeforeEntry
        /\ (EntryFound.text # "" /\ (ServerUpdatedAt = 0 \/ EntryFound.date > ServerUpdatedAt))
             => context'.sourceRawContent = EntryFound.text
        /\ EntryFound.text = "" => context'.sourceRawContent = TextBeforeEntry ]_vars

\* A registry load was answered with a record older than the cache entry, and
\* the cached text replaced the fetched one.
C5_Witness ==
  /\ state \in SourceLoaded
  /\ loadResponse = "record"
  /\ effects = <<>>
  /\ lastEdit = NoEdit
  /\ context.sourceID = RegistryId
  /\ cache[RegistryId] # NoEntry
  /\ cache[RegistryId].date > context.sourceRegistryData.updatedAt
  /\ context.sourceRawContent = "a"

\* C6: started with no URL parameters, no server-supplied data and no cache
\* entry, the machine settles in no_source/no_cached_source, which carries the
\* canShowWelcomeMessage tag; EXAMPLE_REQUESTED there sets rawContent to the
\* example text and changes nothing else.
C6_WelcomeAndExample ==
  [][ /\ (Start /\ ~data.present /\ url = NoQuery /\ cache[NoSourceKey] = NoEntry) =>
           (state' = "no_cached_source" /\ "canShowWelcomeMessage" \in Tags(state')
            /\ context' = context)
      /\ EXAMPLE_REQUESTED =>
           /\ state' = state
           /\ context' = [context EXCEPT !.sourceRawContent = exampleMachineCode]
           /\ <<url, cache, session>>' = <<url, cache, session>> ]_vars

C6_Witness ==
  /\ state = "no_cached_source"
  /\ ~data.present /\ url = NoQuery /\ cache = EmptyCache
  /\ context = [InitialContext(NoSsrData) EXCEPT !.sourceRawContent = exampleMachineCode]

\* The page is opened on the legacy URL ?id=... with no server-supplied data.
OnLegacyUrl == clientSide /\ url.id = RegistryId /\ ~data.present

\* C7 as stated: started on the legacy URL the machine redirects once and
\* resolves through with_source/loading_content with provider registry and
\* the id of the URL.
C7_Original ==
  [][ (Start /\ OnLegacyUrl) =>
        /\ effects' = <<Redirect>>
        /\ state' = "loading_content"
        /\ context'.sourceProvider = "registry"
        /\ context'.sourceID = RegistryId ]_vars

\* C7 amended: started on the legacy URL the machine redirects once and halts
\* in redirecting, with sourceID and sourceProvider still null; it never
\* enters with_source/loading_content.
C7_RedirectAndHalt ==
  /\ [][ (Start /\ OnLegacyUrl) =>
           /\ effects' = <<Redirect>>
           /\ state' = "redirecting"
           /\ context' = context ]_vars
  /\ [][ state = "redirecting" =>
           /\ state' = "redirecting"
           /\ context'.sourceID = Null
           /\ context'.sourceProvider = Null
           /\ (effects' = effects \/ effects' = <<>>) ]_vars

C7_Witness ==
  /\ state = "redirecting"
  /\ OnLegacyUrl
  /\ context.loggedInUserId = "u1"
  /\ context.sourceID = Null

\* C8: in locked, GRAB at p followed by DRAG to q puts the drag machine in
\* locked/dragging with delta (p.x - q.x, p.y - q.y), which is the delta
\* reported to the canvas; a subsequent UNGRAB returns to locked/idle.
C8_GrabDragUngrab ==
  /\ (dragEvent.type = "GRAB") =>
        (dragState = "grabbed" /\ dragCtx.startPoint = dragEvent.point
         /\ dragCtx.dragPoint = dragEvent.point)
  /\ (dragEvent.type = "DRAG" /\ dragEvent.from = "grabbed") =>
        /\ dragState = "dragging"
        /\ dragCtx.dx = dragEvent.grab.x - dragEvent.point.x
        /\ dragCtx.dy = dragEvent.grab.y - dragEvent.point.y
        /\ panSent = <<Pan(dragEvent.grab.x - dragEvent.point.x,
                           dragEvent.grab.y - dragEvent.point.y)>>
  /\ (dragEvent.type = "UNGRAB") => dragState = "idle"

C8_Witness ==
  /\ dragEvent.type = "DRAG" /\ dragEvent.from = "grabbed"
  /\ dragEvent.grab = [x |-> 0, y |-> 1]
  /\ dragEvent.point = [x |-> 2, y |-> 0]
  /\ dragCtx.dx = -2 /\ dragCtx.dy = 1
  /\ dragState = "dragging"

\* C9: sourceRegistryData is null whenever sourceProvider is not registry.
C9_RegistryDataOnlyForRegistry ==
  context.sourceProvider # "registry" => context.sourceRegistryData = NullData

\* A gist source back in source_loaded after a failed fork attempt.
C9_Witness ==
  /\ context.sourceProvider = "gist"
  /\ state \in SourceLoaded
  /\ effects = <<Broadcast("error")>>
  /\ loadResponse = "ok"
  /\ context.sourceRegistryData = NullData

\* C10: sourceID is non-null whenever sourceProvider is non-null.
C10_ProviderImpliesId ==
  context.sourceProvider # Null => context.sourceID # Null

\* The record returned by a create / fork has been adopted.
C10_Witness ==
  /\ context.sourceProvider = "registry"
  /\ context.sourceID \in NewIds
  /\ state = "user_owns_this_source"
  /\ context.sourceRegistryData.id = context.sourceID

OwnerId == context.sourceRegistryData.ownerId

\* C11 as stated: in source_loaded/owner the owner of the registry record is
\* known and is the logged-in user; in source_loaded/not_owner the two differ
\* or one of them is unknown.  It is to hold after any sequence of events.
C11_Original ==
  /\ state = "user_owns_this_source" =>
       (Truthy(OwnerId) /\ Truthy(context.loggedInUserId) /\ OwnerId = context.loggedInUserId)
  /\ state = "user_does_not_own_this_source" =>
       (~Truthy(OwnerId) \/ ~Truthy(context.loggedInUserId) \/ OwnerId # context.loggedInUserId)

\* A step that enters creating, and a step that enters updating.
EntersCreating == state \notin Creating /\ state' \in Creating
EntersUpdating == state # "updating" /\ state' = "updating"

\* C12: creating and updating are entered only while the auth session is
\* authenticated, and updating is entered only from source_loaded/owner.
C12_AuthenticatedEntry ==
  [][ /\ (EntersCreating \/ EntersUpdating) => session
      /\ EntersUpdating => state = "user_owns_this_source" ]_vars

\* The update call has just been issued by an authenticated owner.
C12_Witness ==
  /\ state = "updating"
  /\ session
  /\ request.op = "updateSourceFile"
  /\ request.id = RegistryId

\* C13 as stated: the create / fork call never carries an empty or null name.
C13_Original ==
  request.op \in {"createSourceFile", "forkSourceFile"} => NameTruthy(request.name)

\* C14: a successful create / fork removes the cache entry keyed by the
\* pre-creation sourceID, adopts the returned record, replaces the URL with
\* the path of the new sourceID, broadcasts exactly one success notification,
\* in this order, and lands in source_loaded/owner.
C14_CreateSuccess ==
  [][ CreateSettledDone =>
        /\ effects' = << Effect("removeSourceRawContent", CacheKey(context.sourceID)),
                         RouterReplace(context'.sourceID), Broadcast("success") >>
        /\ cache'[CacheKey(context.sourceID)] = NoEntry
        /\ context'.sourceID \in NewIds
        /\ context'.sourceID # context.sourceID
        /\ context'.sourceProvider = "registry"
        /\ context'.sourceRegistryData.id = context'.sourceID
        /\ url'.path = context'.sourceID
        /\ state' = "user_owns_this_source" ]_vars

\* A fresh create has succeeded: the entry under the no-ID key is gone.
C14_Witness ==
  /\ state = "user_owns_this_source"
  /\ effects = << Effect("removeSourceRawContent", NoSourceKey),
                  RouterReplace("new1"), Broadcast("success") >>
  /\ url.path = "new1"
  /\ context.sourceID = "new1"
  /\ cache[NoSourceKey] = NoEntry

\* The source's identity: what a failed save must leave as it was.
Identity(ctx) == <<ctx.sourceID, ctx.sourceProvider, ctx.sourceRegistryData>>

\* C15: a failed create / fork broadcasts exactly one error notification and
\* goes to source_loaded with ownership re-checked when a sourceID existed,
\* else to no_source; a failed update broadcasts exactly one error
\* notification and goes to source_loaded with ownership re-checked.  Either
\* way sourceID, sourceProvider and registryMetadata, the URL and the cache
\* are left as they were.
C15_FailedSave ==
  [][ /\ CreateSettledError =>
           /\ effects' = <<Broadcast("error")>>
           /\ Truthy(context.sourceID) => state' = checking_if_user_owns_source(context')
           /\ ~Truthy(context.sourceID) => state' \in NoSource
           /\ Identity(context') = Identity(context)
           /\ url' = url
           /\ cache' = cache
      /\ UpdateSettledError =>
           /\ effects' = <<Broadcast("error")>>
           /\ state' = checking_if_user_owns_source(context')
           /\ Identity(context') = Identity(context)
           /\ url' = url
           /\ cache' = cache ]_vars

\* A fresh create has failed and the machine is back in no_source.
C15_Witness ==
  /\ state \in NoSource
  /\ effects = <<Broadcast("error")>>
  /\ request = NoRequest
  /\ context.sourceID = Null
  /\ Name = <<"Foo">>

Invoking == {"loading_content", "pendingSave", "updating"}
OperationSettles ==
  \/ LoadSettled
  \/ CreateSettledDone
  \/ CreateSettledError
  \/ UpdateSettledDone
  \/ UpdateSettledError

\* C17 as stated: while the operation invoked by loading_content, pendingSave
\* or updating is pending, no step other than the operation's own success or
\* failure moves the machine out of that state.
C17_Original ==
  [][ (state \in Invoking /\ ~OperationSettles) => state' = state ]_vars

\* The operations the machine is waiting for: the content load while it is in
\* loading_content, and the create / fork or update call it has issued.
Outstanding ==
  (IF state = "loading_content" THEN {"loadSourceContent"} ELSE {})
    \cup (IF request # NoRequest THEN {request.op} ELSE {})

C19_EditForwarding ==
  /\ [][ CODE_UPDATED =>
           /\ context'.sourceRawContent \in EditTexts
           /\ context' = [context EXCEPT !.sourceRawContent = context'.sourceRawContent]
           /\ state' = state
           /\ ~isEmbedded =>
                /\ effects' = <<ForwardTo("codeCacheMachine"),
                                ForwardTo("confirmBeforeLeavingMachine")>>
                /\ pendingWrite' = [code |-> context'.sourceRawContent,
                                    sourceID |-> context.sourceID, pending |-> TRUE]
           /\ isEmbedded => effects' = <<>> ]_vars
  /\ [](isEmbedded =>
          /\ pendingWrite = NoWrite
          /\ \A i \in DOMAIN effects : effects[i].kind # "forwardTo")

\* An embedded edit: rawContent is set and nothing was forwarded.
C19_Witness ==
  /\ isEmbedded
  /\ state \in SourceLoaded
  /\ lastEdit.code = "a"
  /\ context.sourceRawContent = "a"
  /\ effects = <<>>
  /\ pendingWrite = NoWrite

\* C20: started in the browser with the ?id= parameter and no server data,
\* the machine runs the redirect once and stays in redirecting for ever, with
\* no network operation issued; in every other case it does not redirect and
\* settles in with_source/loading_content or in no_source.
C20_LegacyRedirect ==
  /\ [][ Start =>
           IF clientSide /\ Truthy(url.id) /\ ~data.present
           THEN state' = "redirecting" /\ effects' = <<Redirect>> /\ ~loadInFlight'
           ELSE /\ state' \in {"loading_content"} \cup NoSource
                /\ effects' = <<>> ]_vars
  /\ [][ state = "redirecting" => (state' = "redirecting" /\ request' = NoRequest
                                    /\ ~loadInFlight') ]_vars
  /\ [][ (~Start /\ effects' # effects) =>
           \A i \in DOMAIN effects' : effects'[i] # Redirect ]_vars

\* Halted in redirecting while events keep arriving.
C20_Witness ==
  /\ state = "redirecting"
  /\ session
  /\ Name = <<"Foo">>
  /\ url.id = RegistryId
  /\ effects = <<>>

\* C23: LOGGED_IN_USER_ID_UPDATED and MACHINE_ID_CHANGED are handled in every
\* state of the started machine: the first sets loggedInUserId to the event's
\* id and, inside source_loaded, re-runs the ownership check; the second sets
\* the desired name to the event's id.  Neither changes anything else.
C23_CrossCutting ==
  /\ [](state # "not_started" =>
          (ENABLED LOGGED_IN_USER_ID_UPDATED /\ ENABLED MACHINE_ID_CHANGED))
  /\ [][ LOGGED_IN_USER_ID_UPDATED =>
           /\ context'.loggedInUserId \in UserIds
           /\ context' = [context EXCEPT !.loggedInUserId = context'.loggedInUserId]
           /\ state' = IF state \in SourceLoaded
                       THEN checking_if_user_owns_source(context') ELSE state ]_vars
  /\ [][ MACHINE_ID_CHANGED =>
           /\ Name' \in EventNames
           /\ context' = [context EXCEPT !.desiredMachineName = Name']
           /\ state' = state ]_vars

\* The name was changed while the create call was pending.
C23_Witness ==
  /\ state = "pendingSave"
  /\ request.name = <<"Foo">>
  /\ Name = <<>>
  /\ context.loggedInUserId = "u1"

\* A step in which the content load fails, and the failures that are the
\* NotFound condition.
LoadFailed == LoadSettled /\ loadResponse' \notin {"ok", "record"}
NotFound == loadResponse' \in {"status404", "no_record"}

ExampleRequested == EXAMPLE_REQUESTED \/ (Unhandled /\ dropped' = "EXAMPLE_REQUESTED")

\* C25 as stated: in either sub-state of no_source EXAMPLE_REQUESTED replaces
\* rawContent with the example source.
C25_Original ==
  [][ (ExampleRequested /\ state \in NoSource) =>
        context'.sourceRawContent = exampleMachineCode ]_vars

\* C25 amended: EXAMPLE_REQUESTED replaces rawContent with the example source
\* in no_cached_source; in has_cached_source it is ignored.
C25_ExampleWithoutCache ==
  [][ (ExampleRequested /\ state \in NoSource) =>
        /\ state' = state
        /\ context' = IF state = "no_cached_source"
                      THEN [context EXCEPT !.sourceRawContent = exampleMachineCode]
                      ELSE context ]_vars

\* EXAMPLE_REQUESTED was received in has_cached_source and the cached text stays.
C25_Witness ==
  /\ state = "has_cached_source"
  /\ dropped = "EXAMPLE_REQUESTED"
  /\ context.sourceRawContent = "a"
  /\ cache[NoSourceKey].text = "a"

\* A step in which CODE_UPDATED finds no handler, and a step that brings the
\* started machine back to source_loaded or no_source.
CodeDropped == Unhandled /\ dropped' = "CODE_UPDATED"
Returns ==
  /\ state \notin SourceLoaded \cup NoSource \cup {"not_started"}
  /\ state' \in SourceLoaded \cup NoSource

\* C29: CODE_UPDATED is handled in source_loaded and no_source only; anywhere
\* else it changes neither the state nor rawContent and forwards nothing, and
\* the step that later returns to source_loaded or no_source brings no edit
\* with it: rawContent then is what it was, the fetched text or the cached one.
C29_DroppedEdits ==
  /\ [][ CODE_UPDATED => state \in SourceLoaded \cup NoSource ]_vars
  /\ [][ CodeDropped =>
           /\ state \in {"redirecting", "loading_content", "source_error", "updating"}
                          \cup Creating
           /\ state' = state
           /\ context' = context
           /\ effects' = <<>>
           /\ pendingWrite' = pendingWrite
           /\ cache' = cache ]_vars
  /\ [][ Returns =>
           /\ context'.sourceRawContent \in
                {context.sourceRawContent, ServerText, EntryFound.text}
           /\ pendingWrite' = NoWrite
           /\ \A i \in DOMAIN effects' : effects'[i].kind # "forwardTo" ]_vars

\* CODE_UPDATED was dropped while the create call was pending.
C29_Witness ==
  /\ state = "pendingSave"
  /\ dropped = "CODE_UPDATED"
  /\ context.sourceRawContent = "a"
  /\ request.text = "a"

\* The states of a save attempt.
Saving == Creating \cup {"updating"}

\* C30 as stated: from the step that accepts SAVE or FORK to the step that
\* brings the machine back to source_loaded or no_source, both included,
\* rawContent keeps its value.
C30_Original ==
  [][ (state \in Saving \/ state' \in Saving) =>
        context'.sourceRawContent = context.sourceRawContent ]_vars

\* A step in which the component handles a key event.
KeyStep == LOCK \/ RELEASE \/ KeyIgnored

\* C21 as stated: a space keydown on a text input in released sends no LOCK
\* and a space keyup on a text input in locked sends no RELEASE.
C21_Original ==
  [][ (KeyStep /\ domEvent'.textInput /\ domEvent'.code = "Space") =>
        (dragEvent'.type \notin {"LOCK", "RELEASE"} /\ dragState' = dragState) ]_vars

\* C22 as stated: after a GRAB at p, startPoint and dragPoint are p and the
\* delta (dx, dy) is cleared.
C22_Original ==
  dragEvent.type = "GRAB" =>
    /\ dragCtx.startPoint = dragEvent.point
    /\ dragCtx.dragPoint = dragEvent.point
    /\ dragCtx.dx = 0
    /\ dragCtx.dy = 0

\* C26: embedded without pan permission, the drag machine starts in
\* in_embedded_mode and never leaves it nor changes its context; there no
\* key listener is installed, no pointer event is sent to the machine, text
\* selection is never disabled and no PAN goes to the canvas service.  In
\* every other configuration the machine starts in released.
C26_EmbeddedNoOp ==
  /\ [][ DragStart =>
           dragState' = IF dragCtx.embed.present /\ dragCtx.embed.isEmbedded
                           /\ ~dragCtx.embed.pan
                        THEN "in_embedded_mode" ELSE "released" ]_vars
  /\ [][ dragState = "in_embedded_mode" =>
           (dragState' = "in_embedded_mode" /\ dragCtx' = dragCtx) ]_vars
  /\ [](dragState = "in_embedded_mode" =>
          /\ Listeners(dragState) = {}
          /\ NextEvents(dragState) = {}
          /\ userSelect = "initial"
          /\ dragEvent.type \in {"xstate.init", "none"}
          /\ \A i \in DOMAIN panSent : panSent[i].type # "PAN")

\* A plain wheel event in in_embedded_mode, zoom being permitted: nothing is sent.
C26_Witness ==
  /\ dragState = "in_embedded_mode"
  /\ dragCtx.embed.zoom
  /\ domEvent.kind = "wheel"
  /\ panSent = <<>>

\* C27: every DRAG handled by the machine enters dragging and sends exactly
\* one PAN with the delta of that step; no other step of the drag machine
\* (start, LOCK, RELEASE, GRAB, UNGRAB, an ignored key or pointer event)
\* sends a PAN.  A step is told by the events it records: only DRAG records
\* a DRAG machine event, only Wheel records a wheel DOM event.
C27_PanPerDrag ==
  [][ IF dragEvent'.type = "DRAG"
      THEN /\ dragState' = "dragging"
           /\ panSent' = <<Pan(dragCtx.dragPoint.x - dragEvent'.point.x,
                               dragCtx.dragPoint.y - dragEvent'.point.y)>>
      ELSE (dragEvent'.type # "none" \/ domEvent'.kind \notin {"wheel", "wheel+modifier"})
             => panSent' = <<>> ]_vars

\* A DRAG that re-entered dragging and sent its own delta.
C27_Witness ==
  /\ dragState = "dragging"
  /\ dragEvent.type = "DRAG"
  /\ dragEvent.from = "dragging"
  /\ dragEvent.point = [x |-> 0, y |-> 1]
  /\ panSent = <<Pan(1, -1)>>

\* C28: during a gesture the deltas sent since the GRAB add up to startPoint
\* minus the current dragPoint, and startPoint is still the GRAB point.
C28_DeltasTelescope ==
  dragState \in {"grabbed", "dragging"} =>
    /\ reported.x = dragCtx.startPoint.x - dragCtx.dragPoint.x
    /\ reported.y = dragCtx.startPoint.y - dragCtx.dragPoint.y
    /\ dragCtx.startPoint = dragEvent.grab

\* Two DRAGs after a GRAB at (0, 1): to (1, 1), then to (2, 0).
C28_Witness ==
  /\ dragState = "dragging"
  /\ dragEvent.from = "dragging"
  /\ dragEvent.grab = [x |-> 0, y |-> 1]
  /\ dragCtx.dragPoint = [x |-> 2, y |-> 0]
  /\ dragCtx.dx = -1
  /\ dragCtx.dy = 1
  /\ reported = [x |-> -2, y |-> 1]

====
